---- MODULE Spec2Model ----
(***************************************************************************)
(* Model of clean_data.py, the NOAA weather cleaning pipeline: one run of  *)
(* main() over one CSV file, one action per statement group of main().     *)
(*                                                                         *)
(* Numbers are fixed point: a float v is the integer v * Unit.  Unit is a  *)
(* multiple of 10 (one decimal place in the input literals) and of every   *)
(* gap length linear interpolation can divide by, so every value of a run  *)
(* is exact.  Floating-point rounding is not modelled.                     *)
(*                                                                         *)
(* The pandas calls are modelled by the behaviour of the pandas releases   *)
(* the script was written for (in-place Series.replace through the frame,  *)
(* fillna(method=...), DataFrame.iloc column assignment changing dtype).   *)
(***************************************************************************)
EXTENDS Integers, Sequences, FiniteSets, TLC

\* Bounds of the model.
MaxRows == 3
MaxHour == 3

RECURSIVE Lcm1To(_)
Gcd(a, b) == CHOOSE g \in 1..a : a % g = 0 /\ b % g = 0 /\
                 \A h \in 1..a : (a % h = 0 /\ b % h = 0) => h <= g
Lcm1To(n) == IF n <= 1 THEN 1 ELSE (Lcm1To(n - 1) * n) \div Gcd(Lcm1To(n - 1), n)

\* One float unit; values of the run are integers in 1/Unit.
Unit == 10 * Lcm1To(MaxHour)

VARIABLES filepath, verbose, csv, pc, data, prev, resampled, outFile, writes,
          printed, abortAt, exitCode

vars == <<filepath, verbose, csv, pc, data, prev, resampled, outFile, writes,
          printed, abortAt, exitCode>>

-----------------------------------------------------------------------------
\* Column names.
VIS == "HOURLYVISIBILITY"
TEMP == "HOURLYDRYBULBTEMPF"
WDIR == "HOURLYWindDirection"
TEND == "HOURLYPressureTendency"
PRECIP == "HOURLYPrecip"
WSIN == "HOURLYWindDirectionSin"
WCOS == "HOURLYWindDirectionCos"
INCR == "HOURLYPressureTendencyIncr"
DECR == "HOURLYPressureTendencyDecr"
CONS == "HOURLYPressureTendencyCons"

\* The data columns read from the file (DATE becomes the index).  TEMP stands
\* for the eight columns that get no treatment of their own.
import_columns == {VIS, TEMP, WDIR, TEND, PRECIP}

\* Cell values: text as read, a float64, or NaN.
NaN == [k |-> "nan", s |-> <<>>, n |-> 0]
Str(s) == [k |-> "str", s |-> s, n |-> 0]
Num(n) == [k |-> "num", s |-> <<>>, n |-> n]
IsNum(x) == x.k = "num"
IsNaN(x) == x.k = "nan"

-----------------------------------------------------------------------------
\* Text to float: Python float() on the literals  [sign] digits [. digits].
IsDigit(ch) == ch \in {"0", "1", "2", "3", "4", "5", "6", "7", "8", "9"}
DigitVal(ch) == CHOOSE d \in 0..9 : <<"0", "1", "2", "3", "4", "5", "6", "7", "8", "9">>[d + 1] = ch
CountChar(s, ch) == Cardinality({i \in DOMAIN s : s[i] = ch})
StripSign(s) == IF Len(s) > 0 /\ s[1] \in {"-", "+"} THEN Tail(s) ELSE s
IsFloatLiteral(s) ==
    LET u == StripSign(s)
    IN  /\ CountChar(u, ".") <= 1
        /\ \A i \in DOMAIN u : u[i] = "." \/ IsDigit(u[i])
        /\ \E i \in DOMAIN u : IsDigit(u[i])

RECURSIVE IntVal(_)
IntVal(ds) == IF ds = <<>> THEN 0
              ELSE IntVal(SubSeq(ds, 1, Len(ds) - 1)) * 10 + DigitVal(ds[Len(ds)])

RECURSIVE Pow10(_)
Pow10(e) == IF e <= 0 THEN 1 ELSE 10 * Pow10(e - 1)

RECURSIVE FracVal(_, _)
FracVal(ds, i) == IF i > Len(ds) THEN 0
                  ELSE DigitVal(ds[i]) * (Unit \div Pow10(i)) + FracVal(ds, i + 1)

FloatValue(s) ==
    LET u == StripSign(s)
        dot == IF \E i \in DOMAIN u : u[i] = "."
               THEN CHOOSE i \in DOMAIN u : u[i] = "." ELSE Len(u) + 1
        mag == IntVal(SubSeq(u, 1, dot - 1)) * Unit + FracVal(SubSeq(u, dot + 1, Len(u)), 1)
    IN  IF Len(s) > 0 /\ s[1] = "-" THEN 0 - mag ELSE mag

\* tryconvert: np.float64(value), NaN when it raises.
tryconvert(value) ==
    IF value.k = "str"
    THEN IF IsFloatLiteral(value.s) THEN Num(FloatValue(value.s)) ELSE NaN
    ELSE value

-----------------------------------------------------------------------------
\* Input files.  A row of the file is its hour (the timestamp's hour, counted
\* from the first observation) and one token per column; the files modelled
\* have their rows in time order.
tok5 == <<"5">>
tok10 == <<"1", "0">>
tok11 == <<"1", "1">>
tokNeg1 == <<"-", "1">>
tok40 == <<"4", "0">>
tok370 == <<"3", "7", "0">>
tok1 == <<"1">>
tok4 == <<"4">>
tok9 == <<"9">>
tokHalf == <<"0", ".", "5">>
tokTwoDots == <<"0", ".", "0", ".", "1">>
tokT == <<"T">>
tokStar == <<"*">>
tokX == <<"x">>
tokEmpty == <<>>

RowOf(vis, temp, wdir, tend, precip) ==
    [c \in import_columns |->
        IF c = VIS THEN vis ELSE IF c = TEMP THEN temp ELSE IF c = WDIR THEN wdir
        ELSE IF c = TEND THEN tend ELSE precip]

RowKinds ==
    { RowOf(tok5, tok40, tok10, tok1, tokT),
      RowOf(tok11, tokT, tok370, tok4, tokTwoDots),
      RowOf(tokNeg1, tokTwoDots, tokStar, tokStar, tokHalf),
      RowOf(tok10, tokEmpty, tokX, tok9, tokStar) }

TablesOfLen(n) ==
    { r \in [1..n -> [t : 0..MaxHour, c : RowKinds]] :
        /\ n > 0 => r[1].t = 0
        /\ \A i \in 1..(n - 1) : r[i].t <= r[i + 1].t }

GoodFiles == { [fault |-> "none", rows |-> r] :
                 r \in UNION { TablesOfLen(n) : n \in 0..MaxRows } }
BadFiles == { [fault |-> f, rows |-> r] :
                 f \in {"nofile", "nocolumn", "baddate"}, r \in TablesOfLen(1) }

\* jfk.csv and d.v2.csv.
Paths == { <<"j", "f", "k", ".", "c", "s", "v">>,
           <<"d", ".", "v", "2", ".", "c", "s", "v">> }

NoFile == [written |-> FALSE, name |-> <<>>, table |-> <<>>]

Init ==
    /\ filepath \in Paths
    /\ verbose \in BOOLEAN
    /\ csv \in GoodFiles \cup BadFiles
    /\ pc = "read"
    /\ data = <<>>
    /\ prev = <<>>
    /\ resampled = <<>>
    /\ outFile = NoFile
    /\ writes = 0
    /\ printed = FALSE
    /\ abortAt = "none"
    /\ exitCode = -1

\* An uncaught exception: the interpreter exits with status 1.
Abort ==
    /\ abortAt' = pc
    /\ pc' = "aborted"
    /\ exitCode' = 1
    /\ UNCHANGED <<filepath, verbose, csv, data, prev, resampled, outFile, writes, printed>>

\* A statement group that replaces the table.
Step(next, table) ==
    /\ pc' = next
    /\ prev' = data
    /\ data' = table
    /\ UNCHANGED <<filepath, verbose, csv, resampled, outFile, writes, printed,
                   abortAt, exitCode>>

-----------------------------------------------------------------------------
\* Lines 44-47: read_csv, set the datetime index, drop DATE.
\* read_csv gives a column float64 when every cell is a number or empty, and
\* text otherwise; an empty cell is NaN in both.
ColumnIsNumeric(rows, col) ==
    \A i \in DOMAIN rows : rows[i].c[col] = <<>> \/ IsFloatLiteral(rows[i].c[col])

ReadCell(rows, col, i) ==
    LET tok == rows[i].c[col]
    IN  IF tok = <<>> THEN NaN
        ELSE IF ColumnIsNumeric(rows, col) THEN Num(FloatValue(tok))
        ELSE Str(tok)

\* Variant: only a missing file stops the read.
ReadRaises_FileOnly(f) == f.fault = "nofile"
ReadRaises(f) == f.fault \in {"nofile", "nocolumn", "baddate"}

ReadData ==
    /\ pc = "read"
    /\ \/ ReadRaises(csv) /\ Abort
       \/ /\ ~ReadRaises(csv)
          /\ Step("normalize",
                  [i \in DOMAIN csv.rows |->
                     [t |-> csv.rows[i].t,
                      c |-> [col \in import_columns |-> ReadCell(csv.rows, col, i)]]])

-----------------------------------------------------------------------------
\* Lines 49-54: sentinel and precipitation normalization.
\* Line 50: '*' becomes NaN in every column.
ReplaceStar(col, x) == IF x = Str(tokStar) THEN NaN ELSE x

\* Line 52: 'T' becomes '0.00' in HOURLYPrecip.
\* Variant: 'T' is replaced in every column.
ReplaceTrace_AnyColumn(col, x) ==
    IF x = Str(tokT) THEN Str(<<"0", ".", "0", "0">>) ELSE x
ReplaceTrace(col, x) ==
    IF col = PRECIP /\ x = Str(tokT) THEN Str(<<"0", ".", "0", "0">>) ELSE x

\* Line 54: the .str accessor exists on a column that holds text.  A column
\* read as float64, or left all-NaN by line 50, is float64 and has none.
StrAccessorRaises(table, col) ==
    /\ Len(table) > 0
    /\ \A i \in DOMAIN table : table[i].c[col].k # "str"

\* Line 54: a HOURLYPrecip text with more than one '.' becomes NaN.
ReplaceTwoDots(col, x) ==
    IF col = PRECIP /\ x.k = "str" /\ CountChar(x.s, ".") > 1 THEN NaN ELSE x

Starred(table) ==
    [i \in DOMAIN table |->
        [t |-> table[i].t,
         c |-> [col \in DOMAIN table[i].c |-> ReplaceStar(col, table[i].c[col])]]]

Traced(table) ==
    LET starred == Starred(table)
    IN  [i \in DOMAIN table |->
           [t |-> table[i].t,
            c |-> [col \in DOMAIN table[i].c |-> ReplaceTrace(col, starred[i].c[col])]]]

TwoDotsNulled(table) ==
    [i \in DOMAIN table |->
        [t |-> table[i].t,
         c |-> [col \in DOMAIN table[i].c |-> ReplaceTwoDots(col, table[i].c[col])]]]

Normalize ==
    /\ pc = "normalize"
    /\ LET traced == Traced(data)
       IN  \/ StrAccessorRaises(traced, PRECIP) /\ Abort
           \/ /\ ~StrAccessorRaises(traced, PRECIP)
              /\ Step("convert", TwoDotsNulled(traced))

\* Lines 56-58: every column through tryconvert.
ConvertCell(col, x) == tryconvert(x)

Converted(table) ==
    [i \in DOMAIN table |->
        [t |-> table[i].t,
         c |-> [col \in DOMAIN table[i].c |-> ConvertCell(col, table[i].c[col])]]]

ConvertToFloat ==
    /\ pc = "convert"
    /\ Step("range", Converted(data))

\* Lines 60-61: visibility outside 0..10 becomes NaN.
\* Variant: only the upper bound is tested.
OutOfBounds_NoLower(n) == n > 10 * Unit
OutOfBounds(n) == n > 10 * Unit \/ n < 0

NullOutOfBounds(col, x) ==
    IF col = VIS /\ IsNum(x) /\ OutOfBounds(x.n) THEN NaN ELSE x

BoundsNulled(table) ==
    [i \in DOMAIN table |->
        [t |-> table[i].t,
         c |-> [col \in DOMAIN table[i].c |-> NullOutOfBounds(col, table[i].c[col])]]]

RangeNull ==
    /\ pc = "range"
    /\ Step("resample", BoundsNulled(data))

-----------------------------------------------------------------------------
\* Line 64: resample('60min').last() keeps, per hourly bucket and per column,
\* the last value of the bucket that is not NaN; an hour with no value in a
\* column (or no row at all) gets NaN.
RECURSIVE LastValidFrom(_, _, _, _)
LastValidFrom(table, col, h, i) ==
    IF i = 0 THEN NaN
    ELSE IF table[i].t = h /\ ~IsNaN(table[i].c[col]) THEN table[i].c[col]
    ELSE LastValidFrom(table, col, h, i - 1)

\* Variant: the value of the hour's last row, missing or not.
BucketLast_WholeRow(table, col, h) ==
    IF \E i \in DOMAIN table : table[i].t = h
    THEN table[CHOOSE i \in DOMAIN table :
                 table[i].t = h /\ \A j \in DOMAIN table : table[j].t = h => j <= i].c[col]
    ELSE NaN
BucketLast(table, col, h) == LastValidFrom(table, col, h, Len(table))

ResampleLast(table) ==
    IF Len(table) = 0 THEN <<>>
    ELSE LET h0 == table[1].t
             h1 == table[Len(table)].t
         IN  [i \in 1..(h1 - h0 + 1) |->
                [t |-> h0 + i - 1,
                 c |-> [col \in import_columns |-> BucketLast(table, col, h0 + i - 1)]]]

Resample ==
    /\ pc = "resample"
    /\ pc' = "shift"
    /\ prev' = data
    /\ data' = ResampleLast(data)
    /\ resampled' = data'
    /\ UNCHANGED <<filepath, verbose, csv, outFile, writes, printed, abortAt, exitCode>>

\* Line 64: shift(periods=1) moves every row's values one row down; the index
\* stays and the first row becomes NaN.
ShiftedRow(table, i) ==
    IF i = 1 THEN [col \in import_columns |-> NaN] ELSE table[i - 1].c

Shift ==
    /\ pc = "shift"
    /\ Step("ffill", [i \in DOMAIN data |-> [t |-> data[i].t, c |-> ShiftedRow(data, i)]])

\* Line 67: fillna(method='ffill') on HOURLYPressureTendency.
RECURSIVE FfillAt(_, _, _)
FfillAt(table, col, i) ==
    IF i = 0 THEN NaN
    ELSE IF ~IsNaN(table[i].c[col]) THEN table[i].c[col]
    ELSE FfillAt(table, col, i - 1)

Ffill ==
    /\ pc = "ffill"
    /\ Step("interpolate",
            [i \in DOMAIN data |->
               [t |-> data[i].t,
                c |-> [col \in import_columns |->
                         IF col = TEND THEN FfillAt(data, col, i) ELSE data[i].c[col]]]])

\* Line 68: interpolate(method='linear'), limit_direction 'forward': rows are
\* taken as equally spaced, a NaN after the last valid value of a column takes
\* that value, a NaN before the first valid value stays.
RECURSIVE PrevValid(_, _, _)
PrevValid(table, col, i) ==
    IF i = 0 THEN 0
    ELSE IF ~IsNaN(table[i].c[col]) THEN i ELSE PrevValid(table, col, i - 1)

RECURSIVE NextValid(_, _, _)
NextValid(table, col, i) ==
    IF i > Len(table) THEN 0
    ELSE IF ~IsNaN(table[i].c[col]) THEN i ELSE NextValid(table, col, i + 1)

\* Variant: only gaps between two valid values are filled.
InterpolateAt_Inside(table, col, i) ==
    LET p == PrevValid(table, col, i)
        q == NextValid(table, col, i)
    IN  IF p = i THEN table[i].c[col]
        ELSE IF p = 0 \/ q = 0 THEN NaN
        ELSE Num(table[p].c[col].n
                 + ((table[q].c[col].n - table[p].c[col].n) * (i - p)) \div (q - p))
InterpolateAt(table, col, i) ==
    LET p == PrevValid(table, col, i)
        q == NextValid(table, col, i)
    IN  IF p = i THEN table[i].c[col]
        ELSE IF p = 0 THEN NaN
        ELSE IF q = 0 THEN table[p].c[col]
        ELSE Num(table[p].c[col].n
                 + ((table[q].c[col].n - table[p].c[col].n) * (i - p)) \div (q - p))

Interpolate ==
    /\ pc = "interpolate"
    /\ Step("drop",
            [i \in DOMAIN data |->
               [t |-> data[i].t,
                c |-> [col \in import_columns |-> InterpolateAt(data, col, i)]]])

\* Line 69: drop the first row; index[0] of an empty table raises IndexError.
\* Variant: no row is dropped.
DropFirst_Nothing(table) == table
DropFirst(table) == Tail(table)

Drop ==
    /\ pc = "drop"
    /\ \/ Len(data) = 0 /\ Abort
       \/ Len(data) > 0 /\ Step("wind", DropFirst(data))

-----------------------------------------------------------------------------
\* Lines 71-74: wind direction to sine and cosine.  The value of np.sin and
\* np.cos is kept symbolic: the function's name and its argument in degrees.
Trig(fn, x) == IF IsNum(x) THEN [k |-> fn, s |-> <<>>, n |-> x.n] ELSE NaN

WindColumns == (import_columns \ {WDIR}) \cup {WSIN, WCOS}

EncodeWind ==
    /\ pc = "wind"
    /\ Step("tendency",
            [i \in DOMAIN data |->
               [t |-> data[i].t,
                c |-> [col \in WindColumns |->
                         IF col = WSIN THEN Trig("sin", data[i].c[WDIR])
                         ELSE IF col = WCOS THEN Trig("cos", data[i].c[WDIR])
                         ELSE data[i].c[col]]]])

\* Lines 76-83: pressure tendency code to three indicators.
IsIncr(x) == IsNum(x) /\ x.n \in {0, Unit, 2 * Unit, 3 * Unit}
\* Variant: code 4 also counts as a decrease.
IsDecr_WithFour(x) == IsNum(x) /\ x.n \in {4 * Unit, 5 * Unit, 6 * Unit, 7 * Unit, 8 * Unit}
IsDecr(x) == IsNum(x) /\ x.n \in {5 * Unit, 6 * Unit, 7 * Unit, 8 * Unit}
IsCons(x) == IsNum(x) /\ x.n = 4 * Unit
Indicator(b) == IF b THEN Num(Unit) ELSE Num(0)

TendencyColumns == (WindColumns \ {TEND}) \cup {INCR, DECR, CONS}

EncodeTendency ==
    /\ pc = "tendency"
    /\ Step("write",
            [i \in DOMAIN data |->
               [t |-> data[i].t,
                c |-> [col \in TendencyColumns |->
                         IF col = INCR THEN Indicator(IsIncr(data[i].c[TEND]))
                         ELSE IF col = DECR THEN Indicator(IsDecr(data[i].c[TEND]))
                         ELSE IF col = CONS THEN Indicator(IsCons(data[i].c[TEND]))
                         ELSE data[i].c[col]]]])

-----------------------------------------------------------------------------
\* Lines 85-87: the output name and to_csv(float_format='%g').
RECURSIVE split(_, _)
split(s, sep) ==
    IF \E i \in DOMAIN s : s[i] = sep
    THEN LET i == CHOOSE j \in DOMAIN s : s[j] = sep /\ \A l \in 1..(j - 1) : s[l] # sep
         IN  <<SubSeq(s, 1, i - 1)>> \o split(SubSeq(s, i + 1, Len(s)), sep)
    ELSE <<s>>

\* file_name, extension = ... : unpacking raises ValueError unless there are
\* exactly two parts.
UnpackRaises(parts) == Len(parts) # 2

CleanedSuffix == <<"_", "c", "l", "e", "a", "n", "e", "d", ".", "c", "s", "v">>

\* '%g': six significant digits, trailing zeros removed.  A written number is
\* the decimal  (-1)^neg * m / 10^d ; NaN is written as the empty field.
Empty == [k |-> "empty", neg |-> FALSE, m |-> 0, d |-> 0]
Dec(neg, m, d) == [k |-> "dec", neg |-> neg, m |-> m, d |-> d]

RECURSIVE Decimals(_, _)
Decimals(a, d) == IF a * Pow10(d) >= 100000 * Unit THEN d ELSE Decimals(a, d + 1)

RECURSIVE StripZeros(_, _, _)
StripZeros(neg, m, d) ==
    IF d > 0 /\ m % 10 = 0 THEN StripZeros(neg, m \div 10, d - 1) ELSE Dec(neg, m, d)

FormatG(n) ==
    LET a == IF n < 0 THEN 0 - n ELSE n
        d == Decimals(a, 0)
    IN  IF n = 0 THEN Dec(FALSE, 0, 0)
        ELSE StripZeros(n < 0, (a * Pow10(d) + Unit \div 2) \div Unit, d)

FormatCell(col, x) ==
    IF IsNaN(x) THEN Empty
    ELSE IF IsNum(x) THEN FormatG(x.n)
    ELSE [k |-> x.k, neg |-> FALSE, m |-> x.n, d |-> 0]

Formatted(table) ==
    [i \in DOMAIN table |->
        [t |-> table[i].t,
         c |-> [col \in DOMAIN table[i].c |-> FormatCell(col, table[i].c[col])]]]

WriteCsv ==
    /\ pc = "write"
    /\ \/ UnpackRaises(split(filepath, ".")) /\ Abort
       \/ /\ ~UnpackRaises(split(filepath, "."))
          /\ outFile' = [written |-> TRUE,
                         name |-> split(filepath, ".")[1] \o CleanedSuffix,
                         table |-> Formatted(data)]
          /\ writes' = writes + 1
          /\ pc' = "report"
          /\ UNCHANGED <<filepath, verbose, csv, data, prev, resampled, printed,
                         abortAt, exitCode>>

\* Lines 89-98: the verbose summary; index[0] of an empty table raises
\* IndexError after the first lines of the summary are printed.
SummaryRaises(v, table) == v /\ Len(table) = 0

Report ==
    /\ pc = "report"
    /\ printed' = verbose
    /\ \/ /\ SummaryRaises(verbose, data)
          /\ pc' = "aborted"
          /\ abortAt' = pc
          /\ exitCode' = 1
       \/ /\ ~SummaryRaises(verbose, data)
          /\ pc' = "exited"
          /\ exitCode' = 0
          /\ UNCHANGED abortAt
    /\ UNCHANGED <<filepath, verbose, csv, data, prev, resampled, outFile, writes>>

Next == ReadData \/ Normalize \/ ConvertToFloat \/ RangeNull \/ Resample \/ Shift
        \/ Ffill \/ Interpolate \/ Drop \/ EncodeWind \/ EncodeTendency
        \/ WriteCsv \/ Report

Spec == Init /\ [][Next]_vars
-----------------------------------------------------------------------------
\* Properties.
Max(S) == CHOOSE x \in S : \A y \in S : y <= x
Min(S) == CHOOSE x \in S : \A y \in S : x <= y
Valid(table, col, i) == ~IsNaN(table[i].c[col])
AfterRange == {"resample", "shift", "ffill", "interpolate", "drop", "wind", "tendency",
               "write", "report", "exited"}

\* A written value is the empty field or a decimal within [0, 10].
WrittenInBounds(x) ==
    x.k = "empty" \/ (x.k = "dec" /\ (x.m = 0 \/ ~x.neg) /\ x.m <= 10 * Pow10(x.d))
\* The three indicators of a row.
IsOne(x) == x = Num(Unit)
IsZero(x) == x = Num(0)
ExactlyOne(r) ==
    \/ IsOne(r[INCR]) /\ IsZero(r[DECR]) /\ IsZero(r[CONS])
    \/ IsZero(r[INCR]) /\ IsOne(r[DECR]) /\ IsZero(r[CONS])
    \/ IsZero(r[INCR]) /\ IsZero(r[DECR]) /\ IsOne(r[CONS])
AllZero(r) == IsZero(r[INCR]) /\ IsZero(r[DECR]) /\ IsZero(r[CONS])
\* Output row i carries the resampled hour i: no code at or before it.
NoCodeYet(i) == \A j \in 1..i : IsNaN(resampled[j].c[TEND])
\* A NOAA pressure tendency code, 0..8.
IsCode(x) == IsNum(x) /\ \E k \in 0..8 : x.n = k * Unit
\* A token with more than one decimal point.
HasTwoDots(tok) == CountChar(tok, ".") > 1
\* The rows of an hour, in the table before the last statement.
RowsIn(h) == {i \in DOMAIN prev : prev[i].t = h}
\* The valid cells of a column at or before, and at or after, row i, in the
\* table before the last statement.
ValidUpTo(col, i) == {j \in 1..i : Valid(prev, col, j)}
ValidFrom(col, i) == {j \in i..Len(prev) : Valid(prev, col, j)}

\* C1: every HOURLYVISIBILITY value of the table after range nulling, and of
\* the written output, is missing or a number within [0, 10].
C1_VisibilityInBounds ==
    /\ pc \in AfterRange =>
         \A i \in DOMAIN data :
            IsNaN(data[i].c[VIS])
            \/ (IsNum(data[i].c[VIS]) /\ data[i].c[VIS].n >= 0 /\ data[i].c[VIS].n <= 10 * Unit)
    /\ outFile.written =>
         \A i \in DOMAIN outFile.table : WrittenInBounds(outFile.table[i].c[VIS])
\* An out-of-range visibility was read and a written visibility was interpolated
\* (the inputs are whole numbers, the written value is not).
C1_Witness ==
    /\ outFile.written
    /\ \E i \in DOMAIN csv.rows : csv.rows[i].c[VIS] \in {tok11, tokNeg1}
    /\ \E i \in DOMAIN outFile.table :
          outFile.table[i].c[VIS].k = "dec" /\ outFile.table[i].c[VIS].d > 0

\* C2 (as amended): in the table handed to to_csv, a row whose forward-filled
\* code is one of 0..8 has exactly one indicator 1.0 and the others 0.0; every
\* other row has all three 0.0: the leading rows with no code at or before
\* them, and the rows whose code is a number outside 0..8.
C2_IndicatorsAmended ==
    pc = "write" =>
      \A i \in DOMAIN data :
         /\ IsNaN(prev[i].c[TEND]) <=> NoCodeYet(i)
         /\ IF IsCode(prev[i].c[TEND]) THEN ExactlyOne(data[i].c) ELSE AllZero(data[i].c)
C2_Witness ==
    /\ pc = "write"
    /\ \E i \in DOMAIN data : IsCode(prev[i].c[TEND])
    /\ \E i \in DOMAIN data : IsNum(prev[i].c[TEND]) /\ ~IsCode(prev[i].c[TEND])
\* C2 as stated: exactly one indicator is 1.0 in every row but the leading
\* rows with no code at or before them, which have all three 0.0.
C2_IndicatorsOriginal ==
    pc = "write" =>
      \A i \in DOMAIN data :
         IF NoCodeYet(i) THEN AllZero(data[i].c) ELSE ExactlyOne(data[i].c)

\* C3: every run on a path with a '.', also one with more than one '.', that
\* reaches the output statement writes its output, to the text of the path
\* before its first '.' followed by _cleaned.csv.
C3_WritesBeforeFirstDot ==
    (/\ CountChar(filepath, ".") >= 1
     /\ \/ pc \in {"report", "exited"}
        \/ pc = "aborted" /\ abortAt \in {"write", "report"}) =>
       /\ outFile.written
       /\ outFile.name = split(filepath, ".")[1] \o CleanedSuffix

\* C4: after normalization and conversion every cell is a float or missing,
\* and no cell content makes the run fail in those stages.
C4_ConversionNeverAborts ==
    /\ pc \in AfterRange \cup {"range"} =>
         \A i \in DOMAIN data : \A col \in DOMAIN data[i].c :
            data[i].c[col].k \in {"num", "nan", "sin", "cos"}
    /\ ~(pc = "aborted" /\ abortAt \in {"normalize", "convert", "range"})

\* C5: a run that has written its output ends with exit status zero, with or
\* without -v.
C5_ExitZeroAfterWrite ==
    (pc \in {"exited", "aborted"} /\ outFile.written) => exitCode = 0

\* C6: the output is written at most once, only after every transformation,
\* with nothing but the summary after it; a run on a missing file, a file
\* without a required column or with an unparseable date writes nothing.
C6_AbortMeansNoOutput ==
    /\ writes <= 1
    /\ outFile.written <=> writes = 1
    /\ outFile.written =>
         /\ pc \in {"report", "exited", "aborted"}
         /\ pc = "aborted" => abortAt = "report"
    /\ pc \in {"report", "exited"} => outFile.written
    /\ csv.fault # "none" => ~outFile.written /\ pc \in {"read", "aborted"}
C6_Witness ==
    pc = "aborted" /\ abortAt = "read" /\ csv.fault = "baddate" /\ ~outFile.written

\* C7: in HOURLYPrecip 'T' is cleaned to 0.00 and a token with more than one
\* '.' to missing, so that after normalization the column holds neither; in
\* every other column such tokens are left as read (and convert to missing).
C7_PrecipNormalization ==
    /\ pc = "convert" =>
         \A i \in DOMAIN data :
            /\ data[i].c[PRECIP] # Str(tokT)
            /\ ~(data[i].c[PRECIP].k = "str" /\ HasTwoDots(data[i].c[PRECIP].s))
            /\ csv.rows[i].c[PRECIP] = tokT => data[i].c[PRECIP] = Str(<<"0", ".", "0", "0">>)
            /\ HasTwoDots(csv.rows[i].c[PRECIP]) => IsNaN(data[i].c[PRECIP])
            /\ \A col \in import_columns \ {PRECIP} :
                  (csv.rows[i].c[col] = tokT \/ HasTwoDots(csv.rows[i].c[col]))
                     => data[i].c[col] = Str(csv.rows[i].c[col])
    /\ pc = "range" =>
         \A i \in DOMAIN data :
            /\ csv.rows[i].c[PRECIP] = tokT => data[i].c[PRECIP] = Num(0)
            /\ HasTwoDots(csv.rows[i].c[PRECIP]) => IsNaN(data[i].c[PRECIP])
            /\ \A col \in import_columns \ {PRECIP} :
                  csv.rows[i].c[col] = tokT => IsNaN(data[i].c[col])
C7_Witness ==
    /\ pc = "range"
    /\ \E i \in DOMAIN data : csv.rows[i].c[PRECIP] = tokT
    /\ \E i \in DOMAIN data : HasTwoDots(csv.rows[i].c[PRECIP])
    /\ \E i \in DOMAIN data : csv.rows[i].c[TEMP] = tokT

\* C8 (as amended): the resampled table has one row per hour from the first to
\* the last observation, and in each column the row of an hour holds the last
\* value of that hour's rows that is not missing (missing when there is none),
\* which is the last row's value whenever that value is not missing.
C8_LastValidPerColumn ==
    pc = "shift" =>
      /\ Len(prev) > 0 => Len(data) = prev[Len(prev)].t - prev[1].t + 1
      /\ Len(prev) = 0 => Len(data) = 0
      /\ \A b \in DOMAIN data :
            /\ data[b].t = prev[1].t + b - 1
            /\ \A col \in import_columns :
                  LET valid == {i \in RowsIn(data[b].t) : Valid(prev, col, i)}
                  IN  IF valid = {} THEN IsNaN(data[b].c[col])
                      ELSE data[b].c[col] = prev[Max(valid)].c[col]
\* The last row of an hour is missing a value that an earlier row of the hour has.
C8_Witness ==
    /\ pc = "shift"
    /\ \E b \in DOMAIN data : \E col \in import_columns :
          /\ RowsIn(data[b].t) # {}
          /\ ~Valid(prev, col, Max(RowsIn(data[b].t)))
          /\ Valid(data, col, b)
\* C8 as stated: every column of an hour's row comes from the hour's last row.
C8_LastRowAsAWhole ==
    pc = "shift" =>
      \A b \in DOMAIN data :
         RowsIn(data[b].t) # {} => data[b].c = prev[Max(RowsIn(data[b].t))].c

\* C9: with B resampled hours the shifted table has B rows and the output
\* B - 1; the row of hour H carries, before gap filling, the values resampled
\* for hour H - 1, so the last hour's readings reach no output row and a
\* one-hour input gives an output without rows.
C9_LagAndRowCount ==
    /\ pc = "ffill" =>
         /\ Len(data) = Len(resampled)
         /\ \A i \in DOMAIN data :
               /\ data[i].t = resampled[i].t
               /\ i > 1 => /\ data[i].c = resampled[i - 1].c
                           /\ resampled[i - 1].t = data[i].t - 1
    /\ pc = "wind" => Len(data) = Len(prev) - 1
    /\ outFile.written =>
         /\ Len(outFile.table) = Len(resampled) - 1
         /\ \A i \in DOMAIN outFile.table : outFile.table[i].t = resampled[i].t + 1
         /\ (\A i \in DOMAIN csv.rows : csv.rows[i].t = csv.rows[1].t) => Len(outFile.table) = 0
C9_Witness ==
    outFile.written /\ Len(resampled) >= 3 /\ Len(outFile.table) = Len(resampled) - 1

\* C10 (as amended): in every column but HOURLYPressureTendency, after
\* interpolation a cell is missing exactly when it lies before the first valid
\* value of its column; a valid cell is unchanged, a gap between two valid
\* values is filled on the straight line over row position, and a gap after
\* the last valid value is filled with that value.
C10_GapFillingAmended ==
    pc = "drop" =>
      /\ Len(data) = Len(prev)
      /\ \A i \in DOMAIN data : \A col \in import_columns \ {TEND} :
            /\ IsNaN(data[i].c[col]) <=> ValidUpTo(col, i) = {}
            /\ Valid(prev, col, i) => data[i].c[col] = prev[i].c[col]
            /\ (ValidUpTo(col, i) # {} /\ ValidFrom(col, i) = {}) =>
                  data[i].c[col] = prev[Max(ValidUpTo(col, i))].c[col]
            /\ (ValidUpTo(col, i) # {} /\ ValidFrom(col, i) # {}) =>
                  LET p == Max(ValidUpTo(col, i))
                      q == Min(ValidFrom(col, i))
                  IN  p < q => (q - p) * (data[i].c[col].n - prev[p].c[col].n)
                                 = (prev[q].c[col].n - prev[p].c[col].n) * (i - p)
\* One column has a gap between two valid values, one a gap after its last.
C10_Witness ==
    /\ pc = "drop"
    /\ \E i \in DOMAIN data : \E col \in import_columns \ {TEND} :
          ~Valid(prev, col, i) /\ ValidUpTo(col, i) # {} /\ ValidFrom(col, i) # {}
    /\ \E i \in DOMAIN data : \E col \in import_columns \ {TEND} :
          ~Valid(prev, col, i) /\ ValidUpTo(col, i) # {} /\ ValidFrom(col, i) = {}
\* C10 as stated: a cell is missing after interpolation exactly when it lies
\* before the first or after the last valid value of its column.
C10_NoFillAtBoundaries ==
    pc = "drop" =>
      \A i \in DOMAIN data : \A col \in import_columns \ {TEND} :
         IsNaN(data[i].c[col]) <=> (ValidUpTo(col, i) = {} \/ ValidFrom(col, i) = {})
====
